---- MODULE Spec2Model ----
(***************************************************************************)
(* Fault-tolerance patterns of the Order Service (Lab4/FaultTolerance):    *)
(* CircuitBreaker (patterns/circuitBreaker.js) and RetryPattern            *)
(* (patterns/retry.js), modelled as state machines.                        *)
(*                                                                         *)
(* JavaScript is single threaded: a piece of code between two awaits runs  *)
(* atomically, so every action below is one such piece.  Concurrent calls  *)
(* interleave only at the awaits (await fn(), await sleep()).              *)
(***************************************************************************)
EXTENDS Integers, Sequences, FiniteSets, TLC

(* ------------------------------ bounds -------------------------------- *)
\* number of call slots that may be in flight at the same time
NumCallers == 2
\* total number of CircuitBreaker.execute calls in one behaviour
MaxCalls == 5
\* the clock (Date.now()) runs from 0 to MaxTime
MaxTime == 4
\* configuration the breaker is constructed with (options.*), scaled down
failureThreshold == 2
resetTimeout == 2
halfOpenRequests == 2
\* largest options.maxRetries tried, and number of RetryPattern.execute calls
MaxRetriesOpt == 2
MaxExecs == 2
\* configuration the rate limiter is constructed with, scaled down, and the
\* total number of RateLimiter.tryAcquire calls in one behaviour
maxRequests == 2
windowMs == 2
MaxAcquires == 5
\* configuration the bulkhead is constructed with, scaled down; the number
\* of Bulkhead.execute calls in one behaviour is one more than fills it
maxConcurrent == 1
queueSize == 2
maxWait == 2
MaxArrivals == maxConcurrent + queueSize + 1
\* calls of BulkheadManager.getBulkhead, and of execute on each of its pools
MaxGets == 3
MaxPoolCalls == 2
\* requests the order service receives in one behaviour, and the maxRetries
\* its RetryPattern is constructed with, scaled down
MaxPipeRequests == 4
PipeMaxRetries == 1
\* the clock of the order service runs from 0 to PipeMaxTime
PipeMaxTime == 2

Callers == 1..NumCallers
\* distinguishable failures and results of the downstream operation
Errors == {"E1", "E2"}
Values == {"V1", "V2"}
\* the result of the operation guarded by the breaker (it only passes through)
CBValues == {"V1"}
\* null of JavaScript, for a timestamp that was never set
NULL == -1

VARIABLES
    cb,       \* the CircuitBreaker instance
    now,      \* Date.now()
    calls,    \* per caller: "running" while its execute awaits fn()
    last,     \* outcome of the execute call that finished last
    obs,      \* history of the breaker's events (observation only)
    rp,       \* the RetryPattern instance
    ropts,    \* the options the RetryPattern was constructed with
    rx,       \* the frame of the running RetryPattern.execute call
    rlog,     \* what RetryPattern.execute did: invocations and delays
    rl,       \* the RateLimiter instance
    rlobs,    \* the last RateLimiter call and the admissions (observation only)
    bh,       \* the Bulkhead instance
    bcalls,   \* what became of each Bulkhead.execute call, by order of arrival
    btimers,  \* the armed setTimeout timers of queued requests
    bobs,     \* whether Bulkhead.reset was called (observation only)
    mgr,      \* BulkheadManager.bulkheads: the pool of each name
    mobs,     \* the calls of getBulkhead (observation only)
    preqs     \* the requests of the order service, by order of arrival

vars == <<cb, now, calls, last, obs, rp, ropts, rx, rlog, rl, rlobs,
          bh, bcalls, btimers, bobs, mgr, mobs, preqs>>
cbVars == <<cb, now, calls, last, obs>>
retryVars == <<rp, ropts, rx, rlog>>
rlVars == <<rl, rlobs>>
bhVars == <<bh, bcalls, btimers, bobs>>
mgrVars == <<mgr, mobs>>
pipeVars == <<preqs>>

NoResult == [kind |-> "none", v |-> "none"]
Returned(v) == [kind |-> "return", v |-> v]
Thrown(e) == [kind |-> "throw", v |-> e]
\* what the awaited operation fn() can do
OpOutcomes == {[kind |-> "ok", v |-> v] : v \in CBValues}
                \cup {[kind |-> "fail", v |-> e] : e \in Errors}

Min(a, b) == IF a <= b THEN a ELSE b
Max(a, b) == IF a >= b THEN a ELSE b
\* ToNumber(null) is 0 in an arithmetic expression
ToNumber(x) == IF x = NULL THEN 0 ELSE x

(* ========================= CircuitBreaker ============================= *)

CircuitBreaker ==
    [state |-> "CLOSED",
     failureCount |-> 0,
     successCount |-> 0,
     lastFailureTime |-> NULL,
     halfOpenAttempts |-> 0,
     stats |-> [totalRequests |-> 0,
                successfulRequests |-> 0,
                failedRequests |-> 0,
                rejectedRequests |-> 0,
                stateChanges |-> <<>>]]

changeState(b, newState, t) ==
    [b EXCEPT !.state = newState,
              !.stats.stateChanges =
                  Append(@, [from |-> b.state, to |-> newState, timestamp |-> t])]

\* resetCounts that forgets the half-open success counter
resetCounts_keepsSuccessCount(b) ==
    [b EXCEPT !.failureCount = 0, !.halfOpenAttempts = 0]

resetCounts(b) ==
    [b EXCEPT !.failureCount = 0, !.successCount = 0, !.halfOpenAttempts = 0]

\* evaluateState that lets the first call after opening through
evaluateState_ignoresTimeout(b, t) ==
    IF b.state = "OPEN"
    THEN [changeState(b, "HALF_OPEN", t) EXCEPT !.halfOpenAttempts = 0]
    ELSE b

\* evaluateState with > in place of >=
evaluateState_strictTimeout(b, t) ==
    IF b.state = "OPEN"
    THEN LET timeSinceLastFailure == t - ToNumber(b.lastFailureTime)
         IN  IF timeSinceLastFailure > resetTimeout
             THEN [changeState(b, "HALF_OPEN", t) EXCEPT !.halfOpenAttempts = 0]
             ELSE b
    ELSE b

evaluateState(b, t) ==
    IF b.state = "OPEN"
    THEN LET timeSinceLastFailure == t - ToNumber(b.lastFailureTime)
         IN  IF timeSinceLastFailure >= resetTimeout
             THEN [changeState(b, "HALF_OPEN", t) EXCEPT !.halfOpenAttempts = 0]
             ELSE b
    ELSE b

\* onSuccess that counts successes toward closing in every state
onSuccess_anyState(b, t) ==
    LET b1 == [b EXCEPT !.successCount = @ + 1, !.halfOpenAttempts = @ + 1]
    IN  IF b1.successCount >= halfOpenRequests
        THEN resetCounts(changeState(b1, "CLOSED", t))
        ELSE b1

\* onSuccess that leaves the failure count alone outside HALF_OPEN
onSuccess_keepsFailureCount(b, t) ==
    IF b.state = "HALF_OPEN"
    THEN LET b1 == [b EXCEPT !.successCount = @ + 1, !.halfOpenAttempts = @ + 1]
         IN  IF b1.successCount >= halfOpenRequests
             THEN resetCounts(changeState(b1, "CLOSED", t))
             ELSE b1
    ELSE b

onSuccess(b, t) ==
    IF b.state = "HALF_OPEN"
    THEN LET b1 == [b EXCEPT !.successCount = @ + 1, !.halfOpenAttempts = @ + 1]
         IN  IF b1.successCount >= halfOpenRequests
             THEN resetCounts(changeState(b1, "CLOSED", t))
             ELSE b1
    ELSE [b EXCEPT !.failureCount = 0]

\* onFailure with > in place of >=
onFailure_strictThreshold(b, t) ==
    LET b1 == [b EXCEPT !.failureCount = @ + 1, !.lastFailureTime = t]
    IN  IF b1.state = "HALF_OPEN"
        THEN changeState(b1, "OPEN", t)
        ELSE IF b1.failureCount > failureThreshold
             THEN changeState(b1, "OPEN", t)
             ELSE b1

\* onFailure that records the failure time only outside HALF_OPEN
onFailure_keepsFailureTime(b, t) ==
    IF b.state = "HALF_OPEN"
    THEN changeState([b EXCEPT !.failureCount = @ + 1], "OPEN", t)
    ELSE LET b1 == [b EXCEPT !.failureCount = @ + 1, !.lastFailureTime = t]
         IN  IF b1.failureCount >= failureThreshold
             THEN changeState(b1, "OPEN", t)
             ELSE b1

onFailure(b, t) ==
    LET b1 == [b EXCEPT !.failureCount = @ + 1, !.lastFailureTime = t]
    IN  IF b1.state = "HALF_OPEN"
        THEN changeState(b1, "OPEN", t)
        ELSE IF b1.failureCount >= failureThreshold
             THEN changeState(b1, "OPEN", t)
             ELSE b1

reset(b) == resetCounts([b EXCEPT !.state = "CLOSED"])

\* execute that raises CIRCUIT_OPEN without counting the rejection
executeEntry_uncountedRejection(b, t) ==
    LET b1 == [b EXCEPT !.stats.totalRequests = @ + 1]
        b2 == evaluateState(b1, t)
    IN  [cb |-> b2, rejected |-> b2.state = "OPEN"]

\* execute up to "await fn()": count the request, evaluate the lazy
\* transition, then reject (rejected = TRUE) or invoke fn
executeEntry(b, t) ==
    LET b1 == [b EXCEPT !.stats.totalRequests = @ + 1]
        b2 == evaluateState(b1, t)
    IN  IF b2.state = "OPEN"
        THEN [cb |-> [b2 EXCEPT !.stats.rejectedRequests = @ + 1],
              rejected |-> TRUE]
        ELSE [cb |-> b2, rejected |-> FALSE]

\* execute whose catch block reports CIRCUIT_OPEN once the failure has
\* opened the breaker
executeSettle_masksError(b, op, t) ==
    IF op.kind = "ok"
    THEN [cb |-> [onSuccess(b, t) EXCEPT !.stats.successfulRequests = @ + 1],
          result |-> Returned(op.v)]
    ELSE LET b1 == [onFailure(b, t) EXCEPT !.stats.failedRequests = @ + 1]
         IN  [cb |-> b1,
              result |-> IF b1.state = "OPEN" THEN Thrown("CIRCUIT_OPEN")
                         ELSE Thrown(op.v)]

\* execute after "await fn()": the try branch or the catch branch
executeSettle(b, op, t) ==
    IF op.kind = "ok"
    THEN [cb |-> [onSuccess(b, t) EXCEPT !.stats.successfulRequests = @ + 1],
          result |-> Returned(op.v)]
    ELSE [cb |-> [onFailure(b, t) EXCEPT !.stats.failedRequests = @ + 1],
          result |-> Thrown(op.v)]

\* the outcome of the execute call that finished last (observation only):
\* how: "rejected" or "settled"; op: how fn settled; result: what execute
\* returned or threw
NoCall == [how |-> "none", op |-> NoResult, result |-> NoResult]

\* the history kept for the properties: failures in a row, successes in the
\* current half-open period, time and origin of the last entry into OPEN,
\* operations invoked in the current half-open period (0 outside HALF_OPEN)
ObsInit ==
    [failStreak |-> 0, hoSuccesses |-> 0, openedAt |-> NULL, openedFrom |-> "none",
     hoInvoked |-> 0]

ObsAfter(o, b, b2, op, t) ==
    LET streak == IF b2.state = "CLOSED" /\ b.state # "CLOSED" THEN 0
                  ELSE IF op.kind = "ok" THEN 0
                  ELSE IF op.kind = "fail" THEN o.failStreak + 1
                  ELSE o.failStreak
        succ == IF b2.state = "HALF_OPEN" /\ b.state # "HALF_OPEN" THEN 0
                ELSE IF op.kind = "ok" /\ b.state = "HALF_OPEN"
                     THEN o.hoSuccesses + 1
                ELSE o.hoSuccesses
        entersOpen == b2.state = "OPEN" /\ b.state # "OPEN"
        invoked == op.kind = "none" /\ b2.state # "OPEN"
        probes == IF b2.state # "HALF_OPEN" THEN 0
                  ELSE IF b.state # "HALF_OPEN" THEN 1
                  ELSE IF invoked THEN o.hoInvoked + 1
                  ELSE o.hoInvoked
    IN  [failStreak |-> streak, hoSuccesses |-> succ,
         openedAt |-> IF entersOpen THEN t ELSE o.openedAt,
         openedFrom |-> IF entersOpen THEN b.state ELSE o.openedFrom,
         hoInvoked |-> probes]

CBInit ==
    /\ cb = CircuitBreaker
    /\ now = 0
    /\ calls = [c \in Callers |-> "idle"]
    /\ last = NoCall
    /\ obs = ObsInit

\* caller c enters CircuitBreaker.execute: it is rejected, or fn is invoked
\* and the call waits for it
CBExecute(c) ==
    /\ calls[c] = "idle"
    /\ cb.stats.totalRequests < MaxCalls
    /\ LET e == executeEntry(cb, now)
       IN  /\ cb' = e.cb
           /\ obs' = ObsAfter(obs, cb, e.cb, NoResult, now)
           /\ IF e.rejected
              THEN /\ calls' = calls
                   /\ last' = [how |-> "rejected", op |-> NoResult,
                               result |-> Thrown("CIRCUIT_OPEN")]
              ELSE /\ calls' = [calls EXCEPT ![c] = "running"]
                   /\ last' = last
    /\ UNCHANGED now

\* the awaited operation of caller c settles and execute resumes
CBSettle(c) ==
    /\ calls[c] = "running"
    /\ \E op \in OpOutcomes :
         LET s == executeSettle(cb, op, now)
         IN  /\ cb' = s.cb
             /\ obs' = ObsAfter(obs, cb, s.cb, op, now)
             /\ last' = [how |-> "settled", op |-> op, result |-> s.result]
    /\ calls' = [calls EXCEPT ![c] = "idle"]
    /\ UNCHANGED now

\* POST /reset: circuitBreaker.reset()
CBReset ==
    /\ cb' = reset(cb)
    /\ obs' = [obs EXCEPT !.failStreak = 0, !.hoInvoked = 0]
    /\ UNCHANGED <<now, calls, last>>

Tick ==
    /\ now < MaxTime
    /\ now' = now + 1
    /\ UNCHANGED <<cb, calls, last, obs>>

(* ====================== properties: CircuitBreaker ==================== *)

\* the step is a caller entering execute
Started == cb'.stats.totalRequests = cb.stats.totalRequests + 1
\* the step is the operation of caller c settling
Settled(c) == calls[c] = "running" /\ calls'[c] = "idle"
\* the entering call was rejected with CIRCUIT_OPEN and no fn was invoked
RejectedNow ==
    /\ calls' = calls
    /\ last'.how = "rejected"
    /\ last'.result = Thrown("CIRCUIT_OPEN")
    /\ cb'.stats.rejectedRequests = cb.stats.rejectedRequests + 1
\* the entering call of caller c invoked its operation
InvokedNow(c) ==
    /\ calls[c] = "idle"
    /\ calls' = [calls EXCEPT ![c] = "running"]
    /\ cb'.stats.rejectedRequests = cb.stats.rejectedRequests
\* the step is the administrative reset
IsResetStep ==
    /\ calls' = calls
    /\ now' = now
    /\ cb'.stats = cb.stats
    /\ cb' = reset(cb)
LastChange == cb.stats.stateChanges[Len(cb.stats.stateChanges)]
\* the call that finished last was rejected
LastRejected == last.how = "rejected" /\ last.result = Thrown("CIRCUIT_OPEN")

\* C1: a call that starts while the breaker is OPEN and less than
\* resetTimeout after lastFailureTime is rejected with CIRCUIT_OPEN, its
\* operation is not invoked and the breaker stays OPEN, whatever other calls
\* are in flight.
C1_FailFast ==
    [][(Started /\ cb.state = "OPEN"
           /\ now - ToNumber(cb.lastFailureTime) < resetTimeout)
       => (RejectedNow /\ cb'.state = "OPEN")]_vars

C1_Witness ==
    /\ LastRejected
    /\ cb.state = "OPEN"
    /\ now - ToNumber(cb.lastFailureTime) < resetTimeout
    /\ \E d \in Callers : calls[d] = "running"

\* C2: from CLOSED with no failure counted, the breaker opens exactly when
\* the failureThreshold-th failure in a row settles (while CLOSED the streak
\* is below the threshold), and a call started while it is still OPEN less
\* than resetTimeout after that opening is rejected without invoking fn.
C2_OpensOnThreshold ==
    /\ [](cb.state = "CLOSED" => obs.failStreak < failureThreshold)
    /\ [][(cb.state = "CLOSED" /\ cb'.state = "OPEN")
            => /\ obs'.failStreak = failureThreshold
               /\ last'.op.kind = "fail"
               /\ \E c \in Callers : Settled(c)]_vars
    /\ [][(Started /\ cb.state = "OPEN" /\ obs.openedFrom = "CLOSED"
              /\ now - obs.openedAt < resetTimeout)
            => RejectedNow]_vars

C2_Witness ==
    /\ cb.state = "OPEN"
    /\ obs.openedFrom = "CLOSED"
    /\ obs.failStreak = failureThreshold
    /\ cb.stats.failedRequests = failureThreshold
    /\ LastRejected
    /\ now > obs.openedAt

\* C3: a call that starts while OPEN at least resetTimeout after
\* lastFailureTime moves the breaker to HALF_OPEN and invokes its operation;
\* OPEN -> HALF_OPEN happens only in a step that starts a call (the clock
\* alone changes nothing); and the breaker has left HALF_OPEN once
\* halfOpenRequests successes settled in the half-open period.
C3_HalfOpenRecovery ==
    /\ [][(Started /\ cb.state = "OPEN"
              /\ now - ToNumber(cb.lastFailureTime) >= resetTimeout)
            => /\ cb'.state = "HALF_OPEN"
               /\ \E c \in Callers : InvokedNow(c)]_vars
    /\ [][(cb.state = "OPEN" /\ cb'.state = "HALF_OPEN") => Started]_vars
    /\ [][now' # now => cb' = cb]_vars
    /\ [](cb.state = "HALF_OPEN" => obs.hoSuccesses < halfOpenRequests)

C3_Witness ==
    /\ cb.state = "CLOSED"
    /\ Len(cb.stats.stateChanges) = 3
    /\ cb.stats.stateChanges[2].from = "OPEN"
    /\ cb.stats.stateChanges[2].to = "HALF_OPEN"
    /\ cb.stats.stateChanges[2].timestamp
          = cb.stats.stateChanges[1].timestamp + resetTimeout
    /\ LastChange.from = "HALF_OPEN"
    /\ obs.hoSuccesses = halfOpenRequests

\* C4 (as claimed): every OPEN -> HALF_OPEN transition leaves the half-open
\* success counter at zero, and HALF_OPEN -> CLOSED (without reset) happens
\* only when halfOpenRequests successes settled since the latest entry into
\* HALF_OPEN.
C4_HalfOpenCounterFresh ==
    [][/\ (cb.state = "OPEN" /\ cb'.state = "HALF_OPEN") => cb'.successCount = 0
       /\ (cb.state = "HALF_OPEN" /\ cb'.state = "CLOSED" /\ ~IsResetStep)
            => obs'.hoSuccesses >= halfOpenRequests]_vars

\* C5: a failure that settles while HALF_OPEN moves the breaker to OPEN in
\* that step and sets lastFailureTime to the time of the failure; a call
\* started while it is still OPEN less than resetTimeout after that failure
\* is rejected.
C5_HalfOpenSingleStrike ==
    /\ [][((\E c \in Callers : Settled(c)) /\ last'.op.kind = "fail"
              /\ cb.state = "HALF_OPEN")
            => /\ cb'.state = "OPEN"
               /\ cb'.lastFailureTime = now
               /\ obs'.openedAt = now]_vars
    /\ [][(Started /\ cb.state = "OPEN" /\ obs.openedFrom = "HALF_OPEN"
              /\ now - obs.openedAt < resetTimeout)
            => RejectedNow]_vars

C5_Witness ==
    /\ cb.state = "OPEN"
    /\ obs.openedFrom = "HALF_OPEN"
    /\ LastChange.from = "HALF_OPEN"
    /\ cb.lastFailureTime = obs.openedAt
    /\ now > obs.openedAt
    /\ now - obs.openedAt < resetTimeout
    /\ LastRejected

\* C6: the state changes only along CLOSED -> OPEN, OPEN -> HALF_OPEN,
\* HALF_OPEN -> CLOSED and HALF_OPEN -> OPEN, or to CLOSED by reset.
C6_TransitionsAllowed ==
    [][cb'.state # cb.state
         => \/ <<cb.state, cb'.state>> \in
                 {<<"CLOSED", "OPEN">>, <<"OPEN", "HALF_OPEN">>,
                  <<"HALF_OPEN", "CLOSED">>, <<"HALF_OPEN", "OPEN">>}
            \/ (IsResetStep /\ cb'.state = "CLOSED")]_vars

C6_Witness ==
    /\ cb.state = "CLOSED"
    /\ \A e \in {<<"CLOSED", "OPEN">>, <<"OPEN", "HALF_OPEN">>,
                 <<"HALF_OPEN", "CLOSED">>, <<"HALF_OPEN", "OPEN">>} :
          \E i \in DOMAIN cb.stats.stateChanges :
              <<cb.stats.stateChanges[i].from, cb.stats.stateChanges[i].to>> = e
    /\ cb.stats.successfulRequests = halfOpenRequests

\* C7 (as claimed): at most one of failureCount and successCount is
\* non-zero in every reachable state.
C7_OneCounterNonZero == ~(cb.failureCount # 0 /\ cb.successCount # 0)

\* C7 (amended): while CLOSED the half-open success counter is zero, so at
\* most one of the two counters is non-zero there; both counters are zero
\* on every entry into CLOSED.
C7_CountersWhileClosed ==
    /\ [](cb.state = "CLOSED" => cb.successCount = 0)
    /\ [][(cb.state # "CLOSED" /\ cb'.state = "CLOSED")
            => (cb'.failureCount = 0 /\ cb'.successCount = 0)]_vars

C7_Witness ==
    /\ cb.state = "CLOSED"
    /\ cb.failureCount > 0
    /\ cb.successCount = 0
    /\ Len(cb.stats.stateChanges) > 0
    /\ LastChange.from = "HALF_OPEN"
    /\ LastChange.to = "CLOSED"

\* C8: when the operation fails, execute throws that same failure (not
\* CIRCUIT_OPEN, not another error, never a result) after recording it:
\* failureCount and failedRequests grow by one, successfulRequests does not
\* change and lastFailureTime is the time of the failure.
C8_FailureRethrown ==
    /\ [](last.op.kind = "fail" => last.result = Thrown(last.op.v))
    /\ [][((\E c \in Callers : Settled(c)) /\ last'.op.kind = "fail")
            => /\ last'.result = Thrown(last'.op.v)
               /\ cb'.failureCount = cb.failureCount + 1
               /\ cb'.lastFailureTime = now
               /\ cb'.stats.failedRequests = cb.stats.failedRequests + 1
               /\ cb'.stats.successfulRequests = cb.stats.successfulRequests]_vars

C8_Witness ==
    /\ last = [how |-> "settled", op |-> [kind |-> "fail", v |-> "E2"],
               result |-> Thrown("E2")]
    /\ cb.state = "OPEN"
    /\ LastChange.from = "HALF_OPEN"
    /\ cb.stats.failedRequests = failureThreshold + 1

(* ========================== RetryPattern ============================== *)

\* new RetryPattern(options); an option that is 0 or missing is falsy and
\* "options.x || d" then takes the default d
DefaultMaxRetries == 3
DefaultDelay == 1000
DefaultBackoffMultiplier == 2
DefaultMaxDelay == 10000

OrDefault(x, d) == IF x = 0 THEN d ELSE x

RetryOptions ==
    [maxRetries : 0..MaxRetriesOpt,
     delay : {0, 1, 4},
     backoffMultiplier : {0, 3},
     maxDelay : {0, 3}]

RetryPattern(options) ==
    [maxRetries |-> OrDefault(options.maxRetries, DefaultMaxRetries),
     delay |-> OrDefault(options.delay, DefaultDelay),
     backoffMultiplier |-> OrDefault(options.backoffMultiplier, DefaultBackoffMultiplier),
     maxDelay |-> OrDefault(options.maxDelay, DefaultMaxDelay),
     stats |-> [totalAttempts |-> 0, successfulRetries |-> 0, failedAfterRetries |-> 0]]

\* the test with >= in place of >
retriesExhausted_offByOne(attempt, p) == attempt >= p.maxRetries

\* the test of the catch block: no retry is left after this attempt
retriesExhausted(attempt, p) == attempt > p.maxRetries

\* the next delay without the cap of maxDelay
nextDelay_uncapped(currentDelay, p) == currentDelay * p.backoffMultiplier

\* the delay of the next backoff
nextDelay(currentDelay, p) == Min(currentDelay * p.backoffMultiplier, p.maxDelay)

IdleFrame ==
    [pc |-> "idle", attempt |-> 0, currentDelay |-> 0,
     lastError |-> "none", result |-> NoResult]

\* invoked: calls of fn in this execute; outcomes: how each one settled;
\* delays: the sleeps taken; execs: calls of execute so far
RetryLogInit == [invoked |-> 0, outcomes |-> <<>>, delays |-> <<>>, execs |-> 0]

RetryInit ==
    /\ ropts \in RetryOptions
    /\ rp = RetryPattern(ropts)
    /\ rx = IdleFrame
    /\ rlog = RetryLogInit

\* the head of the for loop with the frame f: run the next attempt up to the
\* await of fn(), or leave the loop and throw lastError
RetryLoopHead(f, log) ==
    IF f.attempt <= rp.maxRetries + 1
    THEN /\ rp' = [rp EXCEPT !.stats.totalAttempts = @ + 1]
         /\ rx' = [f EXCEPT !.pc = "calling"]
         /\ rlog' = [log EXCEPT !.invoked = @ + 1]
    ELSE /\ rp' = rp
         /\ rx' = [f EXCEPT !.pc = "done", !.result = Thrown(f.lastError)]
         /\ rlog' = log

\* a caller enters RetryPattern.execute
RetryExecute ==
    /\ rx.pc \in {"idle", "done"}
    /\ rlog.execs < MaxExecs
    /\ RetryLoopHead([IdleFrame EXCEPT !.attempt = 1, !.currentDelay = rp.delay],
                     [RetryLogInit EXCEPT !.execs = rlog.execs + 1])
    /\ UNCHANGED ropts

\* execute without the return in the try block: a success falls through to
\* the next iteration of the loop
RetryResolved_noReturn(v) ==
    /\ rx.pc = "calling"
    /\ rlog' = [rlog EXCEPT !.outcomes = Append(@, [kind |-> "ok", v |-> v]),
                            !.invoked = IF rx.attempt + 1 <= rp.maxRetries + 1
                                        THEN @ + 1 ELSE @]
    /\ IF rx.attempt + 1 <= rp.maxRetries + 1
       THEN /\ rp' = [rp EXCEPT !.stats.totalAttempts = @ + 1,
                                !.stats.successfulRetries =
                                    IF rx.attempt > 1 THEN @ + 1 ELSE @]
            /\ rx' = [rx EXCEPT !.attempt = @ + 1]
       ELSE /\ rp' = [rp EXCEPT !.stats.successfulRetries =
                                    IF rx.attempt > 1 THEN @ + 1 ELSE @]
            /\ rx' = [rx EXCEPT !.pc = "done", !.result = Thrown(rx.lastError)]
    /\ UNCHANGED ropts

\* fn() resolved with v: return the result
RetryResolved(v) ==
    /\ rx.pc = "calling"
    /\ rp' = [rp EXCEPT !.stats.successfulRetries =
                            IF rx.attempt > 1 THEN @ + 1 ELSE @]
    /\ rx' = [rx EXCEPT !.pc = "done", !.result = Returned(v)]
    /\ rlog' = [rlog EXCEPT !.outcomes = Append(@, [kind |-> "ok", v |-> v])]
    /\ UNCHANGED ropts

\* fn() rejected with e: give up, or sleep before the next attempt
RetryRejected(e) ==
    /\ rx.pc = "calling"
    /\ IF retriesExhausted(rx.attempt, rp)
       THEN /\ rp' = [rp EXCEPT !.stats.failedAfterRetries = @ + 1]
            /\ rx' = [rx EXCEPT !.pc = "done", !.lastError = e,
                                !.result = Thrown(e)]
            /\ rlog' = [rlog EXCEPT !.outcomes = Append(@, [kind |-> "fail", v |-> e])]
       ELSE /\ rp' = rp
            /\ rx' = [rx EXCEPT !.pc = "sleeping", !.lastError = e]
            /\ rlog' = [rlog EXCEPT !.outcomes = Append(@, [kind |-> "fail", v |-> e]),
                                    !.delays = Append(@, rx.currentDelay)]
    /\ UNCHANGED ropts

\* the timer of sleep(currentDelay) fires: grow the delay, next iteration
RetryWake ==
    /\ rx.pc = "sleeping"
    /\ RetryLoopHead([rx EXCEPT !.currentDelay = nextDelay(rx.currentDelay, rp),
                                !.attempt = @ + 1],
                     rlog)
    /\ UNCHANGED ropts


(* ======================= properties: RetryPattern ===================== *)

AllFailed == \A i \in DOMAIN rlog.outcomes : rlog.outcomes[i].kind = "fail"
LastOutcome == rlog.outcomes[Len(rlog.outcomes)]

\* C9: constructed with maxRetries = n >= 1, an execute whose operation
\* fails every time invokes it exactly n + 1 times and then throws the
\* failure of the last invocation; no invocation is made beyond n + 1.
C9_RetryExhaustion ==
    /\ ropts.maxRetries >= 1 => rp.maxRetries = ropts.maxRetries
    /\ rlog.invoked <= rp.maxRetries + 1
    /\ (rx.pc = "done" /\ AllFailed)
         => /\ rlog.invoked = rp.maxRetries + 1
            /\ Len(rlog.outcomes) = rp.maxRetries + 1
            /\ rx.result = Thrown(LastOutcome.v)

C9_Witness ==
    /\ rx.pc = "done"
    /\ ropts.maxRetries = 2
    /\ AllFailed
    /\ rlog.invoked = 3
    /\ rlog.outcomes[1].v = "E1"
    /\ rx.result = Thrown("E2")

\* C10: execute returns at the first success: when attempt k succeeds the
\* operation was invoked exactly k times (k <= maxRetries + 1), the k - 1
\* earlier attempts failed, the result of attempt k is returned, k - 1
\* delays were taken (none after the success) and nothing is invoked later.
C10_ReturnsAtFirstSuccess ==
    \A k \in DOMAIN rlog.outcomes :
        rlog.outcomes[k].kind = "ok"
        => /\ k = Len(rlog.outcomes)
           /\ k <= rp.maxRetries + 1
           /\ rlog.invoked = k
           /\ \A i \in 1..(k - 1) : rlog.outcomes[i].kind = "fail"
           /\ rx.pc = "done"
           /\ rx.result = Returned(rlog.outcomes[k].v)
           /\ Len(rlog.delays) = k - 1

C10_Witness ==
    /\ rx.pc = "done"
    /\ Len(rlog.outcomes) = 2
    /\ rp.maxRetries = 3
    /\ rx.result = Returned("V2")
    /\ rp.stats.successfulRetries = 1

\* C11: the delays execute sleeps for are initialDelay after the first
\* failed attempt and min(previous * backoffMultiplier, maxDelay) after each
\* later one; a delay follows every failed attempt but the final one, so an
\* execute that failed throughout slept exactly maxRetries times.
C11_BackoffSequence ==
    /\ \A k \in DOMAIN rlog.delays :
          rlog.delays[k] =
              IF k = 1 THEN rp.delay
              ELSE IF rlog.delays[k - 1] * rp.backoffMultiplier <= rp.maxDelay
                   THEN rlog.delays[k - 1] * rp.backoffMultiplier
                   ELSE rp.maxDelay
    /\ Len(rlog.delays) <= rp.maxRetries
    /\ Len(rlog.delays) =
          IF rx.pc = "sleeping" THEN Len(rlog.outcomes)
          ELSE IF rx.pc = "calling" THEN rlog.invoked - 1
          ELSE IF rx.pc = "done" THEN Len(rlog.outcomes) - 1
          ELSE 0
    /\ (rx.pc = "done" /\ AllFailed) => Len(rlog.delays) = rp.maxRetries

C11_Witness ==
    /\ rx.pc = "done"
    /\ AllFailed
    /\ rp.maxRetries = 3
    /\ rlog.delays = <<1, 3, 3>>

(* =========================== RateLimiter ============================== *)

RateLimiter ==
    [requests |-> <<>>,
     stats |-> [totalRequests |-> 0, allowedRequests |-> 0, rejectedRequests |-> 0]]

\* cleanupOldRequests that keeps the timestamp on the edge of the window
cleanupOldRequests_inclusive(l, t) ==
    LET windowStart == t - windowMs
    IN  [l EXCEPT !.requests = SelectSeq(@, LAMBDA timestamp : timestamp >= windowStart)]

cleanupOldRequests(l, t) ==
    LET windowStart == t - windowMs
    IN  [l EXCEPT !.requests = SelectSeq(@, LAMBDA timestamp : timestamp > windowStart)]

\* tryAcquire with > in place of >=
tryAcquire_offByOne(l, t) ==
    LET l1 == cleanupOldRequests([l EXCEPT !.stats.totalRequests = @ + 1], t)
    IN  IF Len(l1.requests) > maxRequests
        THEN [rl |-> [l1 EXCEPT !.stats.rejectedRequests = @ + 1], allowed |-> FALSE]
        ELSE [rl |-> [l1 EXCEPT !.requests = Append(@, t),
                                !.stats.allowedRequests = @ + 1],
              allowed |-> TRUE]

\* tryAcquire that records the request before it tests the quota
tryAcquire_recordsRejected(l, t) ==
    LET l1 == cleanupOldRequests([l EXCEPT !.stats.totalRequests = @ + 1], t)
        l2 == [l1 EXCEPT !.requests = Append(@, t)]
    IN  IF Len(l2.requests) > maxRequests
        THEN [rl |-> [l2 EXCEPT !.stats.rejectedRequests = @ + 1], allowed |-> FALSE]
        ELSE [rl |-> [l2 EXCEPT !.stats.allowedRequests = @ + 1], allowed |-> TRUE]

tryAcquire(l, t) ==
    LET l1 == cleanupOldRequests([l EXCEPT !.stats.totalRequests = @ + 1], t)
    IN  IF Len(l1.requests) >= maxRequests
        THEN [rl |-> [l1 EXCEPT !.stats.rejectedRequests = @ + 1], allowed |-> FALSE]
        ELSE [rl |-> [l1 EXCEPT !.requests = Append(@, t),
                                !.stats.allowedRequests = @ + 1],
              allowed |-> TRUE]

\* Math.min(...this.requests) of a non-empty array
MinOf(q) == CHOOSE x \in {q[i] : i \in DOMAIN q} : \A i \in DOMAIN q : x <= q[i]

\* getRetryAfter that is one time unit short
getRetryAfter_early(l, t) ==
    IF Len(l.requests) = 0 THEN 0
    ELSE LET oldestRequest == MinOf(l.requests)
             retryAfter == oldestRequest + windowMs - t - 1
         IN  Max(0, retryAfter)

getRetryAfter(l, t) ==
    IF Len(l.requests) = 0 THEN 0
    ELSE LET oldestRequest == MinOf(l.requests)
             retryAfter == oldestRequest + windowMs - t
         IN  Max(0, retryAfter)

\* getRemainingRequests that reads the array without cleaning it first
getRemainingRequests_noCleanup(l, t) ==
    [rl |-> l, value |-> Max(0, maxRequests - Len(l.requests))]

getRemainingRequests(l, t) ==
    LET l1 == cleanupOldRequests(l, t)
    IN  [rl |-> l1, value |-> Max(0, maxRequests - Len(l1.requests))]

RateLimiter_reset(l) == [l EXCEPT !.requests = <<>>]

\* op, allowed, value: the last call and what it returned; admitted: the
\* times of the admissions since the last reset
RLObsInit == [op |-> "none", allowed |-> FALSE, value |-> 0, admitted |-> <<>>]

RLInit ==
    /\ rl = RateLimiter
    /\ rlobs = RLObsInit

RLTryAcquire ==
    /\ rl.stats.totalRequests < MaxAcquires
    /\ LET r == tryAcquire(rl, now)
       IN  /\ rl' = r.rl
           /\ rlobs' = [op |-> "tryAcquire", allowed |-> r.allowed, value |-> 0,
                        admitted |-> IF r.allowed THEN Append(rlobs.admitted, now)
                                     ELSE rlobs.admitted]

RLGetRemainingRequests ==
    LET r == getRemainingRequests(rl, now)
    IN  /\ rl' = r.rl
        /\ rlobs' = [rlobs EXCEPT !.op = "getRemainingRequests",
                                  !.allowed = FALSE, !.value = r.value]

RLGetRetryAfter ==
    /\ rl' = rl
    /\ rlobs' = [rlobs EXCEPT !.op = "getRetryAfter", !.allowed = FALSE,
                              !.value = getRetryAfter(rl, now)]

RLReset ==
    /\ rl' = RateLimiter_reset(rl)
    /\ rlobs' = [op |-> "reset", allowed |-> FALSE, value |-> 0, admitted |-> <<>>]

\* the calls of CircuitBreaker.execute that wait for their operation
InFlight == {c \in Callers : calls[c] = "running"}

\* C28: every call of execute adds one to totalRequests when it enters and
\* one to exactly one of successfulRequests, failedRequests and
\* rejectedRequests when it finishes, a rejection being counted in the step
\* that raises CIRCUIT_OPEN; so totalRequests is always the sum of the three
\* and of the number of calls in flight.
C28_StatsAccount ==
    /\ [](cb.stats.totalRequests =
            cb.stats.successfulRequests + cb.stats.failedRequests
              + cb.stats.rejectedRequests + Cardinality(InFlight))
    /\ [][Started =>
            /\ cb'.stats.successfulRequests = cb.stats.successfulRequests
            /\ cb'.stats.failedRequests = cb.stats.failedRequests
            /\ \/ /\ last'.result = Thrown("CIRCUIT_OPEN")
                  /\ cb'.stats.rejectedRequests = cb.stats.rejectedRequests + 1
                  /\ InFlight' = InFlight
               \/ /\ cb'.stats.rejectedRequests = cb.stats.rejectedRequests
                  /\ Cardinality(InFlight') = Cardinality(InFlight) + 1]_vars
    /\ [][\A c \in Callers : Settled(c) =>
            /\ cb'.stats.totalRequests = cb.stats.totalRequests
            /\ cb'.stats.rejectedRequests = cb.stats.rejectedRequests
            /\ \/ /\ last'.op.kind = "ok"
                  /\ cb'.stats.successfulRequests = cb.stats.successfulRequests + 1
                  /\ cb'.stats.failedRequests = cb.stats.failedRequests
               \/ /\ last'.op.kind = "fail"
                  /\ cb'.stats.successfulRequests = cb.stats.successfulRequests
                  /\ cb'.stats.failedRequests = cb.stats.failedRequests + 1]_vars

C28_Witness ==
    /\ cb.stats.successfulRequests >= 1
    /\ cb.stats.failedRequests >= 1
    /\ cb.stats.rejectedRequests >= 1
    /\ Cardinality(InFlight) >= 1

\* C33: while the breaker is HALF_OPEN at most halfOpenRequests operations
\* have been invoked in the current half-open period, in flight or
\* completed.
C33_ProbeLimit ==
    cb.state = "HALF_OPEN" => obs.hoInvoked <= halfOpenRequests

\* C34: a call that succeeds while the breaker is CLOSED leaves it CLOSED
\* with failureCount zero; in CLOSED failureCount is the number of failures
\* since the last success and is below failureThreshold; the breaker goes
\* from CLOSED to OPEN only on the failureThreshold-th failure in a row.
C34_SuccessResetsCount ==
    /\ [][\A c \in Callers :
            (Settled(c) /\ cb.state = "CLOSED" /\ last'.op.kind = "ok") =>
                (cb'.state = "CLOSED" /\ cb'.failureCount = 0)]_vars
    /\ [](cb.state = "CLOSED" =>
            /\ cb.failureCount = obs.failStreak
            /\ cb.failureCount < failureThreshold)
    /\ [][(cb.state = "CLOSED" /\ cb'.state = "OPEN") =>
            obs'.failStreak = failureThreshold]_vars

C34_Witness ==
    /\ cb.state = "CLOSED"
    /\ cb.stats.stateChanges = <<>>
    /\ cb.stats.failedRequests > failureThreshold
    /\ cb.stats.successfulRequests >= 2
    /\ cb.failureCount = failureThreshold - 1

\* C35: lastFailureTime does not change while the breaker stays OPEN, and
\* the first call that starts resetTimeout or more after the breaker opened
\* is let through as a probe.
C35_FailureTimeFixedWhileOpen ==
    /\ [][(cb.state = "OPEN" /\ cb'.state = "OPEN") =>
            cb'.lastFailureTime = cb.lastFailureTime]_vars
    /\ [][(Started /\ cb.state = "OPEN" /\ now >= obs.openedAt + resetTimeout) =>
            cb'.state = "HALF_OPEN"]_vars

\* C36: in the transition history every entry has from # to, the first
\* entry starts from CLOSED and every later entry starts from the state the
\* entry before it led to.
C36_HistoryIsChain ==
    LET h == cb.stats.stateChanges
    IN  /\ \A n \in DOMAIN h : h[n].from # h[n].to
        /\ h # <<>> => h[1].from = "CLOSED"
        /\ \A n \in DOMAIN h : n > 1 => h[n].from = h[n - 1].to

(* ====================== properties: RateLimiter ======================= *)

\* the step is a call of tryAcquire / of getRemainingRequests
TryAcquireStep == rl'.stats.totalRequests = rl.stats.totalRequests + 1
RemainingStep ==
    /\ rlobs'.op = "getRemainingRequests"
    /\ now' = now
    /\ rl'.stats = rl.stats
\* number of admissions (since the last reset) with time in (t - windowMs, t]
AdmittedInWindow(t) ==
    Cardinality({i \in DOMAIN rlobs.admitted :
                    rlobs.admitted[i] > t - windowMs /\ rlobs.admitted[i] <= t})

\* the step is a call of getRetryAfter
RetryAfterStep ==
    /\ rlobs'.op = "getRetryAfter"
    /\ now' = now

\* C40: getRetryAfter returns 0 when no timestamp is stored and otherwise
\* the oldest stored timestamp + windowMs - now, or 0 when that is
\* negative; when tryAcquire rejects, the getRetryAfter of that instant is
\* positive, and a tryAcquire made that much later, with no admission in
\* between, is admitted.
C40_RetryAfter ==
    /\ [][RetryAfterStep =>
            IF rl.requests = <<>> THEN rlobs'.value = 0
            ELSE \E i \in DOMAIN rl.requests :
                    /\ \A j \in DOMAIN rl.requests : rl.requests[i] <= rl.requests[j]
                    /\ rlobs'.value = Max(0, rl.requests[i] + windowMs - now)]_vars
    /\ [][(TryAcquireStep /\ ~rlobs'.allowed) =>
            LET retryAfter == getRetryAfter(rl', now)
            IN  /\ retryAfter > 0
                /\ tryAcquire(rl', now + retryAfter).allowed]_vars
    /\ [][(TryAcquireStep /\ rl.requests # <<>>
             /\ now >= rl.requests[1] + windowMs) => rlobs'.allowed]_vars

\* a call was rejected, getRetryAfter returned a positive value, and the
\* next tryAcquire, made when the oldest admission of the full window
\* was windowMs old, was admitted
C40_Witness ==
    /\ rlobs.op = "tryAcquire"
    /\ rlobs.allowed
    /\ rl.stats.rejectedRequests >= 1
    /\ Len(rlobs.admitted) = maxRequests + 1
    /\ rlobs.admitted[1] + windowMs = now
    /\ rlobs.admitted[maxRequests] < now

\* C12: the stored timestamps are at most maxRequests, in chronological
\* order, and are the newest admissions; for every instant t at most
\* maxRequests admissions have their time in (t - windowMs, t].
C12_SlidingWindowBound ==
    /\ Len(rl.requests) <= maxRequests
    /\ \A i, j \in DOMAIN rl.requests : i < j => rl.requests[i] <= rl.requests[j]
    /\ Len(rl.requests) <= Len(rlobs.admitted)
    /\ \A i \in DOMAIN rl.requests :
          rl.requests[i] =
              rlobs.admitted[Len(rlobs.admitted) - Len(rl.requests) + i]
    /\ \A t \in 0..MaxTime : AdmittedInWindow(t) <= maxRequests

C12_Witness ==
    /\ Len(rlobs.admitted) = maxRequests + 2
    /\ Len(rl.requests) = maxRequests
    /\ rl.stats.rejectedRequests >= 1
    /\ AdmittedInWindow(now) = maxRequests

\* C13: while fewer than maxRequests timestamps are stored a call is
\* admitted, so the first maxRequests calls are; with maxRequests stored a
\* call made less than windowMs after the oldest of them is rejected; a
\* call made windowMs or more after the oldest stored admission is admitted.
C13_WindowBoundary ==
    /\ [](rl.stats.totalRequests <= maxRequests => rl.stats.rejectedRequests = 0)
    /\ [][TryAcquireStep =>
            /\ Len(rl.requests) < maxRequests => rlobs'.allowed
            /\ (Len(rl.requests) = maxRequests /\ now - rl.requests[1] < windowMs)
                 => ~rlobs'.allowed
            /\ (Len(rl.requests) >= 1 /\ now - rl.requests[1] >= windowMs)
                 => rlobs'.allowed]_vars

C13_Witness ==
    /\ rlobs.op = "tryAcquire"
    /\ rlobs.allowed
    /\ Len(rlobs.admitted) = maxRequests + 1
    /\ rlobs.admitted[maxRequests + 1] = rlobs.admitted[1] + windowMs
    /\ rl.stats.rejectedRequests >= 1
    /\ now = rlobs.admitted[1] + windowMs

\* C14: a rejected tryAcquire leaves the stored timestamps (and the count
\* of admissions) as they were: it appends nothing, so the oldest stored
\* timestamp, which decides when the next call is admitted, does not move.
C14_RejectionNoSideEffect ==
    [][(TryAcquireStep /\ ~rlobs'.allowed)
         => /\ rl'.requests = rl.requests
            /\ rl'.stats.allowedRequests = rl.stats.allowedRequests
            /\ rlobs'.admitted = rlobs.admitted
            /\ getRetryAfter(rl', now) = getRetryAfter(rl, now)]_vars

C14_Witness ==
    /\ rlobs.op = "tryAcquire"
    /\ ~rlobs.allowed
    /\ rl.stats.rejectedRequests = 2
    /\ Len(rl.requests) = maxRequests
    /\ rl.requests[1] + windowMs > now

\* C15: getRemainingRequests returns max(0, maxRequests - c), c the number
\* of stored timestamps strictly newer than now - windowMs.
C15_Remaining ==
    [][RemainingStep =>
         LET c == Cardinality({i \in DOMAIN rl.requests :
                                  rl.requests[i] > now - windowMs})
         IN  rlobs'.value = IF maxRequests - c >= 0 THEN maxRequests - c ELSE 0]_vars

C15_Witness ==
    /\ rlobs.op = "getRemainingRequests"
    /\ rlobs.value = 1
    /\ Len(rlobs.admitted) = maxRequests
    /\ Len(rl.requests) = maxRequests - 1
    /\ rl.stats.rejectedRequests = 0

\* C29: constructed with maxRetries = 0, execute invokes its operation at
\* most once and never sleeps; when that invocation fails, execute ends
\* there and throws its failure.
C29_ZeroRetries ==
    ropts.maxRetries = 0 =>
        /\ rlog.invoked <= 1
        /\ rlog.delays = <<>>
        /\ (rlog.outcomes # <<>> /\ AllFailed) =>
              /\ rx.pc = "done"
              /\ rx.result = Thrown(LastOutcome.v)

\* C30: every delay execute sleeps for is at most maxDelay, whatever the
\* configuration, the initial delay included.
C30_DelayCapped ==
    \A k \in DOMAIN rlog.delays : rlog.delays[k] <= rp.maxDelay

(* ============================= Bulkhead =============================== *)

Arrivals == 1..MaxArrivals

Bulkhead ==
    [currentConcurrent |-> 0,
     queue |-> <<>>,
     stats |-> [totalRequests |-> 0, successfulRequests |-> 0,
                rejectedRequests |-> 0, queuedRequests |-> 0,
                maxConcurrentReached |-> 0]]

\* the ids of the requests in a queue
QueuedIds(q) == {q[n].id : n \in DOMAIN q}

\* the test of line 78 with <= in place of <
hasFreeSlot_inclusive(b) == b.currentConcurrent <= maxConcurrent

\* execute, line 78: a slot is free
hasFreeSlot(b) == b.currentConcurrent < maxConcurrent

\* the test of line 83 with > in place of >=
queueFull_late(b) == Len(b.queue) > queueSize

\* the test of line 83 one entry early
queueFull_early(b) == Len(b.queue) + 1 >= queueSize

\* execute, line 83: the queue is full
queueFull(b) == Len(b.queue) >= queueSize

\* executeWithSlot up to the call of fn
takeSlot(b) ==
    LET b1 == [b EXCEPT !.currentConcurrent = @ + 1]
    IN  IF b1.currentConcurrent = maxConcurrent
        THEN [b1 EXCEPT !.stats.maxConcurrentReached = @ + 1]
        ELSE b1

\* executeWithSlot after fn: the count of a success, and the decrement of
\* the finally block (releaseSlot follows it)
fnSucceeded(b) == [b EXCEPT !.stats.successfulRequests = @ + 1]
returnSlot(b) == [b EXCEPT !.currentConcurrent = @ - 1]

\* an executeWithSlot that gives the slot back only after a success
slotDone_leaksOnFailure(b, ok) == IF ok THEN returnSlot(fnSucceeded(b)) ELSE b

\* executeWithSlot from the settling of fn to the call of releaseSlot
slotDone(b, ok) == returnSlot(IF ok THEN fnSucceeded(b) ELSE b)

\* releaseSlot: the head of the queue, if any and if a slot is free, is
\* shifted out and run by executeWithSlot; when its fn throws before the
\* first await, the finally block of that executeWithSlot runs in the same
\* turn and releases again. k: how many further operations throw like that.
\* threw, running: the ids shifted out, by what became of them.
RECURSIVE releaseSlot(_, _)
\* releaseSlot that takes the newest request (pop in place of shift)
releaseSlot_lifo(b, k) ==
    IF Len(b.queue) > 0 /\ b.currentConcurrent < maxConcurrent
    THEN LET request == b.queue[Len(b.queue)]
             b1 == takeSlot([b EXCEPT !.queue = SubSeq(@, 1, Len(@) - 1)])
         IN  IF k > 0
             THEN LET r == releaseSlot(returnSlot(b1), k - 1)
                  IN  [bh |-> r.bh, threw |-> {request.id} \cup r.threw,
                       running |-> r.running]
             ELSE [bh |-> b1, threw |-> {}, running |-> {request.id}]
    ELSE [bh |-> b, threw |-> {}, running |-> {}]

releaseSlot(b, k) ==
    IF Len(b.queue) > 0 /\ b.currentConcurrent < maxConcurrent
    THEN LET request == Head(b.queue)
             b1 == takeSlot([b EXCEPT !.queue = Tail(@)])
         IN  IF k > 0
             THEN LET r == releaseSlot(returnSlot(b1), k - 1)
                  IN  [bh |-> r.bh, threw |-> {request.id} \cup r.threw,
                       running |-> r.running]
             ELSE [bh |-> b1, threw |-> {}, running |-> {request.id}]
    ELSE [bh |-> b, threw |-> {}, running |-> {}]

\* waitForSlot: the request is pushed on the queue
enqueue(b, id, t) ==
    [b EXCEPT !.queue = Append(@, [id |-> id, timestamp |-> t]),
              !.stats.queuedRequests = @ + 1]

\* a timer callback that rejects and leaves the request in the queue
onTimeout_keepsEntry(b, id) ==
    IF id \in QueuedIds(b.queue)
    THEN [bh |-> [b EXCEPT !.stats.rejectedRequests = @ + 1], rejected |-> TRUE]
    ELSE [bh |-> b, rejected |-> FALSE]

\* the callback of the timer of waitForSlot
onTimeout(b, id) ==
    IF id \in QueuedIds(b.queue)
    THEN [bh |-> [b EXCEPT !.queue = SelectSeq(@, LAMBDA request : request.id # id),
                           !.stats.rejectedRequests = @ + 1],
          rejected |-> TRUE]
    ELSE [bh |-> b, rejected |-> FALSE]

Bulkhead_reset(b) == [b EXCEPT !.currentConcurrent = 0, !.queue = <<>>]

BHInit ==
    /\ bh = Bulkhead
    /\ bcalls = [i \in Arrivals |-> "none"]
    /\ btimers = {}
    /\ bobs = [wasReset |-> FALSE]

\* the requests a releaseSlot shifted out start or have thrown, and their
\* timers are cleared
AfterRelease(r, cs, timers) ==
    /\ bh' = r.bh
    /\ bcalls' = [i \in Arrivals |->
                    IF i \in r.threw THEN "threw"
                    ELSE IF i \in r.running THEN "running"
                    ELSE cs[i]]
    /\ btimers' = {tm \in timers : tm.id \notin (r.threw \cup r.running)}

\* one call of execute, up to its first await or its throw
BHExecute ==
    /\ bh.stats.totalRequests < MaxArrivals
    /\ LET id == bh.stats.totalRequests + 1
           b1 == [bh EXCEPT !.stats.totalRequests = @ + 1]
       IN  IF hasFreeSlot(b1)
           THEN \/ /\ bh' = takeSlot(b1)
                   /\ bcalls' = [bcalls EXCEPT ![id] = "running"]
                   /\ btimers' = btimers
                \/ \E k \in 0..Len(b1.queue) :
                      AfterRelease(releaseSlot(slotDone(takeSlot(b1), FALSE), k),
                                   [bcalls EXCEPT ![id] = "threw"], btimers)
           ELSE IF queueFull(b1)
           THEN /\ bh' = [b1 EXCEPT !.stats.rejectedRequests = @ + 1]
                /\ bcalls' = [bcalls EXCEPT ![id] = "full"]
                /\ btimers' = btimers
           ELSE /\ bh' = enqueue(b1, id, now)
                /\ bcalls' = [bcalls EXCEPT ![id] = "queued"]
                /\ btimers' = btimers \cup {[id |-> id, due |-> now + maxWait]}
    /\ bobs' = bobs

\* the operation of call i settles: the rest of executeWithSlot
BHSettle(i, ok) ==
    /\ bcalls[i] = "running"
    /\ \E k \in 0..Len(bh.queue) :
          AfterRelease(releaseSlot(slotDone(bh, ok), k),
                       [bcalls EXCEPT ![i] = IF ok THEN "returned" ELSE "threw"],
                       btimers)
    /\ bobs' = bobs

\* a timer fires, maxWait or more after it was set
BHTimeout(tm) ==
    /\ tm \in btimers
    /\ now >= tm.due
    /\ LET r == onTimeout(bh, tm.id)
       IN  /\ bh' = r.bh
           /\ bcalls' = IF r.rejected THEN [bcalls EXCEPT ![tm.id] = "timeout"]
                        ELSE bcalls
    /\ btimers' = btimers \ {tm}
    /\ bobs' = bobs

\* reset: the queued requests are dropped, their promises never settle
BHReset ==
    /\ bh' = Bulkhead_reset(bh)
    /\ btimers' = {tm \in btimers : tm.id \notin QueuedIds(bh.queue)}
    /\ bcalls' = [i \in Arrivals |->
                    IF i \in QueuedIds(bh.queue) THEN "abandoned" ELSE bcalls[i]]
    /\ bobs' = [bobs EXCEPT !.wasReset = TRUE]

\* C26: after reset the limiter holds no timestamp and its three counters
\* are zero, and a call is rejected only once maxRequests calls have been
\* admitted since the reset.
C26_ResetClearsAll ==
    /\ rlobs.op = "reset" =>
          /\ rl.requests = <<>>
          /\ rl.stats.totalRequests = 0
          /\ rl.stats.allowedRequests = 0
          /\ rl.stats.rejectedRequests = 0
    /\ (rlobs.op = "tryAcquire" /\ ~rlobs.allowed) =>
          Len(rlobs.admitted) >= maxRequests

(* ======================== properties: Bulkhead ======================== *)

\* the step is a call of execute; the id of the call that arrives in it
ArrivalStep == bh'.stats.totalRequests = bh.stats.totalRequests + 1
ArrivingId == bh.stats.totalRequests + 1
\* the calls whose operation is executing
Running == {i \in Arrivals : bcalls[i] = "running"}
\* call i was invoked (status s): its operation executes or has settled
Invoked(s) == s \in {"running", "returned", "threw"}

\* C16: currentConcurrent never exceeds maxConcurrent, and as long as reset
\* has not been called it is the number of operations executing, hence
\* between 0 and maxConcurrent; execute tests and increments in one step.
C16_ConcurrencyCap ==
    /\ bh.currentConcurrent <= maxConcurrent
    /\ ~bobs.wasReset =>
          /\ bh.currentConcurrent = Cardinality(Running)
          /\ 0 <= bh.currentConcurrent

C16_Witness ==
    /\ ~bobs.wasReset
    /\ bh.currentConcurrent = maxConcurrent
    /\ Cardinality(Running) = maxConcurrent
    /\ bh.stats.maxConcurrentReached >= 2
    /\ \E i \in Arrivals : bcalls[i] = "returned"
    /\ \E i \in Arrivals : bcalls[i] = "timeout"

\* C17: the queue never holds more than queueSize requests; a call that
\* arrives with currentConcurrent = maxConcurrent and queueSize requests
\* queued is rejected with BULKHEAD_FULL in that step, the queue, the slots
\* and the timers are untouched, and the call stays rejected (its
\* operation is never invoked).
C17_QueueBound ==
    /\ [](Len(bh.queue) <= queueSize)
    /\ [][(/\ ArrivalStep
           /\ bh.currentConcurrent = maxConcurrent
           /\ Len(bh.queue) = queueSize)
            => /\ bcalls'[ArrivingId] = "full"
               /\ bh'.queue = bh.queue
               /\ bh'.currentConcurrent = bh.currentConcurrent
               /\ bh'.stats.rejectedRequests = bh.stats.rejectedRequests + 1
               /\ btimers' = btimers]_vars
    /\ [][\A i \in Arrivals : bcalls[i] = "full" => bcalls'[i] = "full"]_vars

C17_Witness ==
    /\ \E i \in Arrivals : bcalls[i] = "full"
    /\ \E i \in Arrivals : bcalls[i] = "returned"
    /\ bh.stats.rejectedRequests = 1
    /\ bh.stats.queuedRequests = queueSize

\* C18: when maxConcurrent + queueSize + 1 calls have arrived, none has
\* completed or timed out and there was no reset, the first maxConcurrent
\* are executing, the next queueSize are queued in their order of arrival,
\* and the last was rejected with BULKHEAD_FULL.
C18_FillThenReject ==
    LET n == maxConcurrent + queueSize + 1
    IN  (/\ bh.stats.totalRequests = n
         /\ ~bobs.wasReset
         /\ \A i \in 1..n : bcalls[i] \in {"running", "queued", "full"})
        => /\ \A i \in 1..maxConcurrent : bcalls[i] = "running"
           /\ Len(bh.queue) = queueSize
           /\ \A i \in 1..queueSize :
                 /\ bcalls[maxConcurrent + i] = "queued"
                 /\ bh.queue[i].id = maxConcurrent + i
           /\ bcalls[n] = "full"
           /\ bh.stats.rejectedRequests = 1

C18_Witness ==
    /\ bh.stats.totalRequests = maxConcurrent + queueSize + 1
    /\ ~bobs.wasReset
    /\ \A i \in 1..(maxConcurrent + queueSize + 1) :
          bcalls[i] = IF i <= maxConcurrent THEN "running"
                      ELSE IF i <= maxConcurrent + queueSize THEN "queued"
                      ELSE "full"

\* C19: no slot is free while a request is queued, so a call that arrives
\* while the queue is non-empty is queued or rejected; the queue is in
\* order of arrival; a request leaves the queue for a slot only when all
\* the requests ahead of it do so in the same step.
C19_FIFO ==
    /\ [](bh.queue # <<>> => bh.currentConcurrent = maxConcurrent)
    /\ [](\A m, n \in DOMAIN bh.queue : m < n => bh.queue[m].id < bh.queue[n].id)
    /\ [][(ArrivalStep /\ bh.queue # <<>>)
            => bcalls'[ArrivingId] \in {"queued", "full"}]_vars
    /\ [][\A n \in DOMAIN bh.queue :
            Invoked(bcalls'[bh.queue[n].id])
              => \A m \in 1..(n - 1) : Invoked(bcalls'[bh.queue[m].id])]_vars

C19_Witness ==
    /\ ~bobs.wasReset
    /\ bh.stats.queuedRequests = 2
    /\ bcalls[maxConcurrent + 1] = "running"
    /\ bcalls[maxConcurrent + 2] = "queued"
    /\ bcalls[1] = "returned"

\* C20: a request is in the queue exactly while its call waits, and only
\* the timers of waiting calls are armed; a call times out only from the
\* queue, at or after its deadline, and is removed from the queue in that
\* step; a timed-out call stays timed out (is never invoked), and a call
\* that was given a slot never times out.
C20_SingleResolution ==
    /\ [](\A i \in Arrivals : bcalls[i] = "queued" <=> i \in QueuedIds(bh.queue))
    /\ [](\A tm \in btimers : bcalls[tm.id] = "queued")
    /\ [][\A i \in Arrivals : bcalls[i] = "timeout" => bcalls'[i] = "timeout"]_vars
    /\ [][\A i \in Arrivals : Invoked(bcalls[i]) => bcalls'[i] # "timeout"]_vars
    /\ [][\A i \in Arrivals :
            (bcalls'[i] = "timeout" /\ bcalls[i] # "timeout")
              => /\ bcalls[i] = "queued"
                 /\ i \notin QueuedIds(bh'.queue)
                 /\ \E tm \in btimers : tm.id = i /\ now >= tm.due
                 /\ bh'.currentConcurrent = bh.currentConcurrent]_vars

C20_Witness ==
    /\ ~bobs.wasReset
    /\ bh.stats.queuedRequests = 2
    /\ bcalls[maxConcurrent + 1] = "timeout"
    /\ bcalls[maxConcurrent + 2] = "running"
    /\ bh.queue = <<>>

\* C21: in a step in which an executing operation settles, by a return or
\* by a throw, currentConcurrent goes down by one; if requests are queued
\* the head of the queue leaves it and its operation is invoked in the
\* same step, and the count goes up by one for each operation that is
\* left executing, so it ends at the number of slots still in use.
C21_SlotReleased ==
    [][\A i \in Arrivals :
         (bcalls[i] = "running" /\ bcalls'[i] \in {"returned", "threw"})
           => /\ bh'.currentConcurrent =
                    bh.currentConcurrent - 1
                      + Cardinality({j \in Arrivals :
                                       bcalls[j] # "running" /\ bcalls'[j] = "running"})
              /\ bh.queue = <<>> => bh'.currentConcurrent = bh.currentConcurrent - 1
              /\ bh.queue # <<>> =>
                    /\ Invoked(bcalls'[Head(bh.queue).id])
                    /\ Head(bh.queue).id \notin QueuedIds(bh'.queue)
                    /\ Len(bh'.queue) < Len(bh.queue)]_vars

C21_Witness ==
    /\ ~bobs.wasReset
    /\ bh.stats.totalRequests = 2
    /\ bh.stats.queuedRequests = 1
    /\ bcalls[1] = "threw"
    /\ bcalls[2] = "running"
    /\ bh.currentConcurrent = 1

\* C31: also after reset, currentConcurrent stays between 0 and
\* maxConcurrent and at most maxConcurrent operations execute at once.
C31_ResetKeepsBounds ==
    /\ 0 <= bh.currentConcurrent
    /\ bh.currentConcurrent <= maxConcurrent
    /\ Cardinality(Running) <= maxConcurrent

\* the calls that entered the queue and whose promise has not settled
Waiting == {i \in Arrivals : bcalls[i] \in {"queued", "abandoned"}}

\* C32: a call that entered the queue and is not yet resolved can still be
\* resolved: it is in the queue, where releaseSlot finds it, and its timer
\* is armed with a deadline maxWait after it was queued; this also after
\* reset.
C32_QueuedResolvable ==
    \A i \in Waiting :
        /\ i \in QueuedIds(bh.queue)
        /\ \E tm \in btimers : tm.id = i /\ tm.due <= now + maxWait

(* ========================== BulkheadManager =========================== *)

DefaultMaxConcurrent == 10
DefaultMaxWait == 5000
DefaultQueueSize == 20

PoolNames == {"product-service", "payment-service"}

\* the options getBulkhead is called with; 0 stands for an option left out
PoolOptions ==
    {[maxConcurrent |-> 0, maxWait |-> 0, queueSize |-> 0],
     [maxConcurrent |-> 1, maxWait |-> 2, queueSize |-> 1],
     [maxConcurrent |-> 2, maxWait |-> 3, queueSize |-> 2]}

\* new Bulkhead({ name, ...options }): id tells the instances apart, 0 is
\* the id of no instance
NewBulkhead(id, options) ==
    [id |-> id,
     maxConcurrent |-> OrDefault(options.maxConcurrent, DefaultMaxConcurrent),
     maxWait |-> OrDefault(options.maxWait, DefaultMaxWait),
     queueSize |-> OrDefault(options.queueSize, DefaultQueueSize),
     currentConcurrent |-> 0,
     queue |-> <<>>,
     stats |-> Bulkhead.stats]

\* the entry of a name the map does not hold
NoPool == NewBulkhead(0, [maxConcurrent |-> 0, maxWait |-> 0, queueSize |-> 0])

\* a getBulkhead that builds a new pool on every call
getBulkhead_lastWriteWins(m, name, options, id) ==
    [m EXCEPT ![name] = NewBulkhead(id, options)]

\* getBulkhead: the map after the call; the pool returned is its entry
getBulkhead(m, name, options, id) ==
    IF m[name].id = 0
    THEN [m EXCEPT ![name] = NewBulkhead(id, options)]
    ELSE m

\* executeWithSlot up to the call of fn, with the limits of pool p
poolTakeSlot(p) ==
    LET p1 == [p EXCEPT !.currentConcurrent = @ + 1]
    IN  IF p1.currentConcurrent = p1.maxConcurrent
        THEN [p1 EXCEPT !.stats.maxConcurrentReached = @ + 1]
        ELSE p1

\* execute on pool p up to its first await or its throw; a queued request
\* is the number of its call
poolExecute(p) ==
    LET p1 == [p EXCEPT !.stats.totalRequests = @ + 1]
    IN  IF p1.currentConcurrent < p1.maxConcurrent
        THEN poolTakeSlot(p1)
        ELSE IF Len(p1.queue) >= p1.queueSize
        THEN [p1 EXCEPT !.stats.rejectedRequests = @ + 1]
        ELSE [p1 EXCEPT !.queue = Append(@, p1.stats.totalRequests),
                        !.stats.queuedRequests = @ + 1]

\* releaseSlot on pool p
poolReleaseSlot(p) ==
    IF Len(p.queue) > 0 /\ p.currentConcurrent < p.maxConcurrent
    THEN poolTakeSlot([p EXCEPT !.queue = Tail(@)])
    ELSE p

\* the rest of executeWithSlot on pool p once fn has settled
poolDone(p, ok) ==
    LET p1 == IF ok THEN [p EXCEPT !.stats.successfulRequests = @ + 1] ELSE p
    IN  poolReleaseSlot([p1 EXCEPT !.currentConcurrent = @ - 1])

\* the timer of the n-th queued request of pool p fires
poolTimeout(p, n) ==
    [p EXCEPT !.queue = SubSeq(@, 1, n - 1) \o SubSeq(@, n + 1, Len(@)),
              !.stats.rejectedRequests = @ + 1]

\* gets: calls of getBulkhead; first: the options of the call that created
\* each pool; name, options, returned: the last call and the id it returned
MgrObsInit ==
    [gets |-> 0,
     first |-> [n \in PoolNames |-> NoPool],
     name |-> "none", options |-> [maxConcurrent |-> 0, maxWait |-> 0, queueSize |-> 0],
     returned |-> 0]

MgrInit ==
    /\ mgr = [n \in PoolNames |-> NoPool]
    /\ mobs = MgrObsInit

MgrGetBulkhead(name, options) ==
    /\ mobs.gets < MaxGets
    /\ LET id == mobs.gets + 1
           m == getBulkhead(mgr, name, options, id)
       IN  /\ mgr' = m
           /\ mobs' = [gets |-> id,
                       first |-> IF mgr[name].id = 0
                                 THEN [mobs.first EXCEPT ![name] = NewBulkhead(id, options)]
                                 ELSE mobs.first,
                       name |-> name, options |-> options,
                       returned |-> m[name].id]

\* a call of execute on the pool of a name
MgrExecute(name) ==
    /\ mgr[name].id # 0
    /\ mgr[name].stats.totalRequests < MaxPoolCalls
    /\ mgr' = [mgr EXCEPT ![name] = poolExecute(@)]
    /\ mobs' = mobs

\* an operation running on the pool of a name settles
MgrSettle(name, ok) ==
    /\ mgr[name].currentConcurrent > 0
    /\ mgr' = [mgr EXCEPT ![name] = poolDone(@, ok)]
    /\ mobs' = mobs

\* the wait of a queued request of the pool of a name times out, at some
\* time after it was queued
MgrTimeout(name, n) ==
    /\ n \in DOMAIN mgr[name].queue
    /\ mgr' = [mgr EXCEPT ![name] = poolTimeout(@, n)]
    /\ mobs' = mobs

(* ===================== properties: BulkheadManager ==================== *)

\* the step is a call of getBulkhead
GetStep == mobs'.gets = mobs.gets + 1
\* the limits of a pool
Limits(p) == <<p.maxConcurrent, p.maxWait, p.queueSize>>

\* C27: a getBulkhead for a name the manager does not hold creates a pool
\* with the limits of the options given and touches no other pool; a
\* getBulkhead for a name it holds returns the instance created first and
\* changes nothing, whatever the options; the limits of a pool stay those
\* of its creation; a step changes the pool of one name at most, and no
\* two names hold the same instance.
C27_FirstWriteWins ==
    /\ [](\A n \in PoolNames :
            /\ mgr[n].id = mobs.first[n].id
            /\ Limits(mgr[n]) = Limits(mobs.first[n]))
    /\ [](\A n, m \in PoolNames :
            (n # m /\ mgr[n].id # 0) => mgr[n].id # mgr[m].id)
    /\ [][GetStep =>
            LET n == mobs'.name
            IN  /\ \A m \in PoolNames \ {n} : mgr'[m] = mgr[m]
                /\ mobs'.returned = mgr'[n].id
                /\ mgr[n].id # 0 => mgr'[n] = mgr[n]
                /\ mgr[n].id = 0 =>
                      /\ mgr'[n] = NewBulkhead(mobs'.gets, mobs'.options)
                      /\ \A o \in {"maxConcurrent", "maxWait", "queueSize"} :
                            mobs'.options[o] # 0 => mgr'[n][o] = mobs'.options[o]]_vars
    /\ [][\A n, m \in PoolNames :
            (n # m /\ mgr'[n] # mgr[n]) => mgr'[m] = mgr[m]]_vars

C27_Witness ==
    /\ \A n \in PoolNames : mgr[n].id # 0
    /\ mobs.gets = 3
    /\ mobs.returned = 1
    /\ Limits(NewBulkhead(0, mobs.options)) # Limits(mgr[mobs.name])
    /\ mgr[mobs.name].currentConcurrent = 1
    /\ \E n \in PoolNames : mgr[n].currentConcurrent = 0

(* ======================== the order service =========================== *)

PipeRequests == 1..MaxPipeRequests

\* the options of the RetryPattern of the service
PipeRetryOptions ==
    [maxRetries |-> PipeMaxRetries, delay |-> 1, backoffMultiplier |-> 2,
     maxDelay |-> 2]

\* status: where the request is or how it ended; attempt: the calls of the
\* product service made for it; currentDelay, wakeAt: its backoff
NoRequest == [status |-> "none", attempt |-> 0, currentDelay |-> 0, wakeAt |-> 0]
Ended(status) == [NoRequest EXCEPT !.status = status]

PipeInit == preqs = [i \in PipeRequests |-> NoRequest]

Arrived == Cardinality({i \in PipeRequests : preqs[i].status # "none"})

\* a middleware that calls next() for a request the limiter rejected
middleware_passesRejected(l, t) ==
    LET r == tryAcquire(getRemainingRequests(l, t).rl, t)
    IN  [rl |-> r.rl, next |-> TRUE]

\* the rate limiter middleware: next() is called when tryAcquire admits
middleware(l, t) ==
    LET r == tryAcquire(getRemainingRequests(l, t).rl, t)
    IN  [rl |-> r.rl, next |-> r.allowed]

\* a middleware that lets POST /reset pass as it does /health and /stats
resetGate_exempt(l, t) == [rl |-> l, next |-> TRUE]

\* the middleware for POST /reset: the path is neither /health nor under
\* /stats, so the request is counted and judged like any other
resetGate(l, t) == middleware(l, t)

resetStats(p) ==
    [p EXCEPT !.stats = [totalAttempts |-> 0, successfulRetries |-> 0,
                         failedAfterRetries |-> 0]]

\* an entry in which the retry makes an attempt although the breaker rejects
guardedEntry_attemptsWhenOpen(c, p, t) ==
    LET e == executeEntry(c, t)
    IN  [cb |-> e.cb, rp |-> [p EXCEPT !.stats.totalAttempts = @ + 1],
         rejected |-> e.rejected]

\* circuitBreaker.execute(() => retry.execute(...)) up to the first await:
\* the breaker rejects, or the retry makes its first attempt
guardedEntry(c, p, t) ==
    LET e == executeEntry(c, t)
    IN  [cb |-> e.cb,
         rp |-> IF e.rejected THEN p ELSE [p EXCEPT !.stats.totalAttempts = @ + 1],
         rejected |-> e.rejected]

\* a composition in which the breaker is told of every failed attempt
attemptFailed_countsAttempt(c, t) ==
    executeSettle(c, [kind |-> "fail", v |-> "E1"], t).cb

\* the breaker after an attempt failed and the retry sleeps: retry.execute
\* has not settled, so circuitBreaker.execute has seen nothing
attemptFailed(c, t) == c

\* a composition in which a call gives its slot back while it backs off
backoffSlot_released(b) == returnSlot(b)

\* the bulkhead after an attempt failed and the retry sleeps: fn has not
\* settled, so executeWithSlot is still at its await
backoffSlot(b) == b

\* releaseSlot in the service: the head of the queue takes the slot and
\* enters the breaker; when the breaker rejects it, its executeWithSlot
\* gives the slot back and releases again before any other event.
\* open, started: the requests shifted out, by what became of them.
RECURSIVE pipeRelease(_, _, _, _)
\* a release that starts the head's call without asking the breaker again
pipeRelease_skipsBreaker(b, c, p, t) ==
    IF Len(b.queue) > 0 /\ b.currentConcurrent < maxConcurrent
    THEN [bh |-> takeSlot([b EXCEPT !.queue = Tail(@)]),
          cb |-> [c EXCEPT !.stats.totalRequests = @ + 1],
          rp |-> [p EXCEPT !.stats.totalAttempts = @ + 1],
          open |-> {}, started |-> {Head(b.queue).id}]
    ELSE [bh |-> b, cb |-> c, rp |-> p, open |-> {}, started |-> {}]

pipeRelease(b, c, p, t) ==
    IF Len(b.queue) > 0 /\ b.currentConcurrent < maxConcurrent
    THEN LET request == Head(b.queue)
             b1 == takeSlot([b EXCEPT !.queue = Tail(@)])
             g == guardedEntry(c, p, t)
         IN  IF g.rejected
             THEN LET r == pipeRelease(slotDone(b1, FALSE), g.cb, g.rp, t)
                  IN  [r EXCEPT !.open = {request.id} \cup @]
             ELSE [bh |-> b1, cb |-> g.cb, rp |-> g.rp,
                   open |-> {}, started |-> {request.id}]
    ELSE [bh |-> b, cb |-> c, rp |-> p, open |-> {}, started |-> {}]

\* the state after a release r; rs: the requests before it
AfterPipeRelease(r, rs) ==
    /\ bh' = r.bh
    /\ cb' = r.cb
    /\ rp' = r.rp
    /\ preqs' = [i \in PipeRequests |->
                   IF i \in r.open THEN Ended("open")
                   ELSE IF i \in r.started
                        THEN [status |-> "calling", attempt |-> 1,
                              currentDelay |-> rp.delay, wakeAt |-> 0]
                   ELSE rs[i]]
    /\ btimers' = {tm \in btimers : tm.id \notin (r.open \cup r.started)}

\* a request for a product arrives: middleware, then callProductService up
\* to its first await
PipeRequest ==
    /\ Arrived < MaxPipeRequests
    /\ LET id == Arrived + 1
           m == middleware(rl, now)
           b1 == [bh EXCEPT !.stats.totalRequests = @ + 1]
           g == guardedEntry(cb, rp, now)
       IN  /\ rl' = m.rl
           /\ IF ~m.next
              THEN /\ preqs' = [preqs EXCEPT ![id] = Ended("limited")]
                   /\ UNCHANGED <<bh, cb, rp, btimers>>
              ELSE IF hasFreeSlot(b1)
              THEN IF g.rejected
                   THEN AfterPipeRelease(
                            pipeRelease(slotDone(takeSlot(b1), FALSE), g.cb, g.rp, now),
                            [preqs EXCEPT ![id] = Ended("open")])
                   ELSE /\ bh' = takeSlot(b1)
                        /\ cb' = g.cb
                        /\ rp' = g.rp
                        /\ preqs' = [preqs EXCEPT ![id] =
                                        [status |-> "calling", attempt |-> 1,
                                         currentDelay |-> rp.delay, wakeAt |-> 0]]
                        /\ btimers' = btimers
              ELSE IF queueFull(b1)
              THEN /\ bh' = [b1 EXCEPT !.stats.rejectedRequests = @ + 1]
                   /\ preqs' = [preqs EXCEPT ![id] = Ended("full")]
                   /\ UNCHANGED <<cb, rp, btimers>>
              ELSE /\ bh' = enqueue(b1, id, now)
                   /\ preqs' = [preqs EXCEPT ![id] = Ended("queued")]
                   /\ btimers' = btimers \cup {[id |-> id, due |-> now + maxWait]}
                   /\ UNCHANGED <<cb, rp>>
    /\ UNCHANGED now

\* retry.execute of request i settles with ok: the breaker records the
\* outcome and the bulkhead gives the slot back
PipeSettle(i, ok, p) ==
    LET op == IF ok THEN [kind |-> "ok", v |-> "V1"] ELSE [kind |-> "fail", v |-> "E1"]
        s == executeSettle(cb, op, now)
    IN  AfterPipeRelease(
            pipeRelease(slotDone(bh, ok), s.cb, p, now),
            [preqs EXCEPT ![i] = [@ EXCEPT !.status = IF ok THEN "returned" ELSE "threw",
                                           !.currentDelay = 0]])

\* the product service answers the call made for request i
PipeResponse(i, ok) ==
    /\ preqs[i].status = "calling"
    /\ IF ok
       THEN PipeSettle(i, TRUE,
                [rp EXCEPT !.stats.successfulRetries =
                               IF preqs[i].attempt > 1 THEN @ + 1 ELSE @])
       ELSE IF retriesExhausted(preqs[i].attempt, rp)
       THEN PipeSettle(i, FALSE, [rp EXCEPT !.stats.failedAfterRetries = @ + 1])
       ELSE /\ preqs' = [preqs EXCEPT ![i].status = "sleeping",
                                      ![i].wakeAt = now + preqs[i].currentDelay]
            /\ cb' = attemptFailed(cb, now)
            /\ bh' = backoffSlot(bh)
            /\ UNCHANGED <<rp, btimers>>
    /\ UNCHANGED <<now, rl>>

\* the sleep of request i ends: the next iteration of the retry loop
PipeWake(i) ==
    /\ preqs[i].status = "sleeping"
    /\ now >= preqs[i].wakeAt
    /\ IF preqs[i].attempt + 1 <= rp.maxRetries + 1
       THEN /\ preqs' = [preqs EXCEPT ![i] =
                            [status |-> "calling", attempt |-> preqs[i].attempt + 1,
                             currentDelay |-> nextDelay(preqs[i].currentDelay, rp),
                             wakeAt |-> 0]]
            /\ rp' = [rp EXCEPT !.stats.totalAttempts = @ + 1]
            /\ UNCHANGED <<bh, cb, btimers>>
       ELSE PipeSettle(i, FALSE, rp)
    /\ UNCHANGED <<now, rl>>

\* the timer of a queued request fires
PipeTimeout(tm) ==
    /\ tm \in btimers
    /\ now >= tm.due
    /\ LET r == onTimeout(bh, tm.id)
       IN  /\ bh' = r.bh
           /\ preqs' = IF r.rejected THEN [preqs EXCEPT ![tm.id] = Ended("timeout")]
                       ELSE preqs
    /\ btimers' = btimers \ {tm}
    /\ UNCHANGED <<now, rl, cb, rp>>

\* POST /reset arrives: middleware, then the four resets
PipeReset ==
    /\ Arrived < MaxPipeRequests
    /\ LET id == Arrived + 1
           m == resetGate(rl, now)
       IN  IF ~m.next
           THEN /\ rl' = m.rl
                /\ preqs' = [preqs EXCEPT ![id] = Ended("limited")]
                /\ UNCHANGED <<bh, cb, rp, btimers>>
           ELSE /\ rp' = resetStats(rp)
                /\ cb' = reset(cb)
                /\ rl' = RateLimiter_reset(m.rl)
                /\ bh' = Bulkhead_reset(bh)
                /\ btimers' = {tm \in btimers : tm.id \notin QueuedIds(bh.queue)}
                /\ preqs' = [i \in PipeRequests |->
                               IF i = id THEN Ended("reset")
                               ELSE IF i \in QueuedIds(bh.queue) THEN Ended("abandoned")
                               ELSE preqs[i]]
    /\ UNCHANGED now

\* time passes in the order service
PipeTick ==
    /\ now < PipeMaxTime
    /\ now' = now + 1
    /\ UNCHANGED <<cb, rp, rl, bh, btimers, preqs>>

\* what the pipeline leaves alone
PipeFrame == UNCHANGED <<calls, last, obs, ropts, rx, rlog, rlobs, bcalls, bobs, mgrVars>>

(* ====================== properties: order service ===================== *)

\* the requests in each status
WithStatus(st) == {i \in PipeRequests : preqs[i].status = st}

\* the step is a request the rate limiter rejects
LimitedStep == rl'.stats.rejectedRequests = rl.stats.rejectedRequests + 1

\* C22: a request the rate limiter rejects ends as rejected by it in that
\* step and stays so; the step leaves the bulkhead, its timers, the breaker
\* and the retry pattern as they were, starts or moves no request, and no
\* call of the product service is ever made for the rejected request.
C22_LimitedTouchesNothing ==
    /\ [][LimitedStep =>
            /\ bh' = bh
            /\ btimers' = btimers
            /\ cb' = cb
            /\ rp' = rp
            /\ preqs'[Arrived + 1] = Ended("limited")
            /\ \A i \in PipeRequests \ {Arrived + 1} : preqs'[i] = preqs[i]]_vars
    /\ [][\A i \in PipeRequests :
            preqs[i].status = "limited" => preqs'[i] = preqs[i]]_vars
    /\ [](\A i \in WithStatus("limited") : preqs[i].attempt = 0)

C22_Witness ==
    /\ WithStatus("limited") # {}
    /\ WithStatus("calling") # {}
    /\ WithStatus("queued") # {}
    /\ rl.stats.rejectedRequests = 1
    /\ cb.stats.totalRequests = 1

\* the step is the administrative reset
PipeResetStep == WithStatus("reset")' # WithStatus("reset")
\* the requests whose guarded call ends in the step with the outcome st
EndsAs(st) == {i \in PipeRequests : preqs[i].status # st /\ preqs'[i].status = st}
\* the transitions of the breaker caused by an outcome: to OPEN or to CLOSED
OutcomeTransitions(b) ==
    Cardinality({k \in DOMAIN b.stats.stateChanges :
                    b.stats.stateChanges[k].to # "HALF_OPEN"})
Abs(x) == IF x >= 0 THEN x ELSE -x

\* C23 as stated: apart from the administrative reset, a step, in which at
\* most one guarded call ends, changes failureCount by at most one and adds
\* at most one transition caused by an outcome; a step that takes the
\* breaker from CLOSED to OPEN ends a call that has used all its attempts,
\* and failureThreshold calls have then ended so.
C23_FailureCountByOne ==
    /\ [][~PipeResetStep => Abs(cb'.failureCount - cb.failureCount) <= 1]_vars
    /\ [][OutcomeTransitions(cb') <= OutcomeTransitions(cb) + 1]_vars
    /\ [][(cb.state = "CLOSED" /\ cb'.state = "OPEN") =>
            /\ \E i \in EndsAs("threw") : preqs'[i].attempt = rp.maxRetries + 1
            /\ Cardinality(WithStatus("threw")') >= failureThreshold]_vars

\* C23 amended: a guarded call raises failureCount by at most one, and only
\* when it ends in failure after maxRetries + 1 attempts (a success may set
\* the count back to zero from any value); a failed attempt that is retried
\* leaves the breaker untouched; the breaker counts one success or failure
\* per call that ran, and an outcome causes at most one transition; going
\* from CLOSED to OPEN takes failureThreshold calls that used all attempts.
C23_OneOutcomePerCall ==
    /\ [][/\ cb'.failureCount <= cb.failureCount + 1
          /\ cb'.failureCount = cb.failureCount + 1 =>
                \E i \in EndsAs("threw") :
                    /\ EndsAs("threw") = {i}
                    /\ preqs'[i].attempt = rp.maxRetries + 1]_vars
    /\ [][EndsAs("sleeping") # {} => cb' = cb]_vars
    /\ [][/\ OutcomeTransitions(cb') <= OutcomeTransitions(cb) + 1
          /\ OutcomeTransitions(cb') # OutcomeTransitions(cb) =>
                EndsAs("threw") \cup EndsAs("returned") # {}]_vars
    /\ [](/\ cb.stats.failedRequests = Cardinality(WithStatus("threw"))
          /\ cb.stats.successfulRequests = Cardinality(WithStatus("returned"))
          /\ \A i \in WithStatus("threw") : preqs[i].attempt = rp.maxRetries + 1
          /\ \A i \in WithStatus("returned") :
                preqs[i].attempt \in 1..(rp.maxRetries + 1))
    /\ [][(cb.state = "CLOSED" /\ cb'.state = "OPEN") =>
            /\ \E i \in EndsAs("threw") : preqs'[i].attempt = rp.maxRetries + 1
            /\ Cardinality(WithStatus("threw")') >= failureThreshold]_vars

C23_Witness ==
    /\ cb.state = "OPEN"
    /\ Cardinality(WithStatus("threw")) = failureThreshold
    /\ rp.stats.totalAttempts = failureThreshold * (rp.maxRetries + 1)
    /\ cb.failureCount = failureThreshold
    /\ OutcomeTransitions(cb) = 1

\* the outcomes BULKHEAD_FULL, BULKHEAD_TIMEOUT and CIRCUIT_OPEN
Refusals == {"full", "timeout", "open"}

\* C24: a call that ends with BULKHEAD_FULL, BULKHEAD_TIMEOUT or
\* CIRCUIT_OPEN has made no call of the product service and never makes
\* one (it is not taken up again); the step in which it is refused leaves
\* totalAttempts of the retry pattern unchanged, and a refusal by the
\* bulkhead leaves the breaker unchanged.
C24_RefusalsNotRetried ==
    /\ [](\A i \in PipeRequests :
            preqs[i].status \in Refusals => preqs[i].attempt = 0)
    /\ [][\A i \in PipeRequests :
            preqs[i].status \in Refusals => preqs'[i] = preqs[i]]_vars
    /\ [][(\E st \in Refusals : EndsAs(st) # {}) =>
            rp'.stats.totalAttempts = rp.stats.totalAttempts]_vars
    /\ [][(EndsAs("full") \cup EndsAs("timeout") # {}) => cb' = cb]_vars

C24_Witness ==
    /\ WithStatus("open") # {}
    /\ cb.state = "OPEN"
    /\ rp.maxRetries >= 1
    /\ rp.stats.totalAttempts >= 1

\* C25: the administrative reset of a breaker that is OPEN leaves it CLOSED
\* with its failure and half-open success counters and its four request
\* counters at zero, and leaves the rate limiter without timestamps and
\* the bulkhead without queued requests.
C25_ResetZeroesBreaker ==
    [][(PipeResetStep /\ cb.state = "OPEN") =>
         /\ cb'.state = "CLOSED"
         /\ cb'.failureCount = 0
         /\ cb'.successCount = 0
         /\ cb'.stats.totalRequests = 0
         /\ cb'.stats.successfulRequests = 0
         /\ cb'.stats.failedRequests = 0
         /\ cb'.stats.rejectedRequests = 0
         /\ rl'.requests = <<>>
         /\ bh'.queue = <<>>]_vars

\* the requests granted a slot from the queue in the step, and the requests
\* whose guarded call completes in it
Granted ==
    {i \in PipeRequests : preqs[i].status = "queued"
                          /\ preqs'[i].status \notin {"queued", "timeout", "abandoned"}}
Completing ==
    {i \in PipeRequests : preqs[i].status \in {"calling", "sleeping"}
                          /\ preqs'[i].status \in {"returned", "threw"}}

\* C37: a queued request that is granted a slot is judged by the breaker
\* as it is then: it is rejected with CIRCUIT_OPEN exactly when the breaker
\* is OPEN after the step, otherwise its first call is made; a rejected one
\* has made no call of the product service, is counted as rejected by the
\* breaker, and its slot is given back, so that currentConcurrent changes
\* only by the slot of the call that completed.
C37_JudgedOnAdmission ==
    [][\A i \in Granted :
          /\ preqs'[i].status \in {"calling", "open"}
          /\ preqs'[i].status = "open" <=> cb'.state = "OPEN"
          /\ preqs'[i].status = "open" =>
                /\ preqs'[i].attempt = 0
                /\ rp'.stats.totalAttempts = rp.stats.totalAttempts
                /\ cb'.stats.rejectedRequests =
                       cb.stats.rejectedRequests + Cardinality(EndsAs("open"))
                /\ bh'.currentConcurrent =
                       bh.currentConcurrent - Cardinality(Completing)
          /\ preqs'[i].status = "calling" =>
                /\ preqs'[i].attempt = 1
                /\ rp'.stats.totalAttempts = rp.stats.totalAttempts + 1]_vars

\* three requests reached the bulkhead, the second and the third waited in
\* the queue, two calls failed and opened the breaker, and a request that
\* had waited was rejected by it
C37_Witness ==
    /\ WithStatus("reset") = {}
    /\ bh.stats.totalRequests = 3
    /\ bh.stats.queuedRequests = 2
    /\ bh.stats.rejectedRequests = 0
    /\ Cardinality(WithStatus("threw")) = failureThreshold
    /\ Cardinality(WithStatus("open")) = 1
    /\ cb.stats.rejectedRequests = 1
    /\ bh.currentConcurrent = 0

\* the requests that hold a slot: a call is being made or the retry sleeps
Holding == WithStatus("calling") \cup WithStatus("sleeping")

QuotaUsed == Len(cleanupOldRequests(rl, now).requests) >= maxRequests

InitCB ==
    /\ CBInit
    /\ ropts = [maxRetries |-> 0, delay |-> 0, backoffMultiplier |-> 0, maxDelay |-> 0]
    /\ rp = RetryPattern(ropts)
    /\ rx = IdleFrame
    /\ rlog = RetryLogInit
    /\ RLInit
    /\ BHInit
    /\ MgrInit
    /\ PipeInit

NextCB ==
    \/ \E c \in Callers : CBExecute(c) /\ UNCHANGED <<retryVars, rlVars, bhVars, mgrVars, pipeVars>>
    \/ \E c \in Callers : CBSettle(c) /\ UNCHANGED <<retryVars, rlVars, bhVars, mgrVars, pipeVars>>
    \/ CBReset /\ UNCHANGED <<retryVars, rlVars, bhVars, mgrVars, pipeVars>>
    \/ Tick /\ UNCHANGED <<retryVars, rlVars, bhVars, mgrVars, pipeVars>>

SpecCB == InitCB /\ [][NextCB]_vars

\* the retry policy, for every configuration of RetryOptions
InitRetry == CBInit /\ RetryInit /\ RLInit /\ BHInit /\ MgrInit /\ PipeInit

NextRetry ==
    \/ RetryExecute /\ UNCHANGED <<cbVars, rlVars, bhVars, mgrVars, pipeVars>>
    \/ \E v \in Values : RetryResolved(v) /\ UNCHANGED <<cbVars, rlVars, bhVars, mgrVars, pipeVars>>
    \/ \E e \in Errors : RetryRejected(e) /\ UNCHANGED <<cbVars, rlVars, bhVars, mgrVars, pipeVars>>
    \/ RetryWake /\ UNCHANGED <<cbVars, rlVars, bhVars, mgrVars, pipeVars>>

SpecRetry == InitRetry /\ [][NextRetry]_vars

\* the rate limiter called at non-decreasing times
InitRL == InitCB

NextRL ==
    \/ RLTryAcquire /\ UNCHANGED <<cbVars, retryVars, bhVars, mgrVars, pipeVars>>
    \/ RLGetRemainingRequests /\ UNCHANGED <<cbVars, retryVars, bhVars, mgrVars, pipeVars>>
    \/ RLGetRetryAfter /\ UNCHANGED <<cbVars, retryVars, bhVars, mgrVars, pipeVars>>
    \/ RLReset /\ UNCHANGED <<cbVars, retryVars, bhVars, mgrVars, pipeVars>>
    \/ Tick /\ UNCHANGED <<retryVars, rlVars, bhVars, mgrVars, pipeVars>>

SpecRL == InitRL /\ [][NextRL]_vars

\* the bulkhead under arrivals, completions, timers and resets
InitBH == InitCB

NextBH ==
    \/ BHExecute /\ UNCHANGED <<cbVars, retryVars, rlVars, mgrVars, pipeVars>>
    \/ \E i \in Arrivals, ok \in BOOLEAN :
          BHSettle(i, ok) /\ UNCHANGED <<cbVars, retryVars, rlVars, mgrVars, pipeVars>>
    \/ \E tm \in btimers : BHTimeout(tm) /\ UNCHANGED <<cbVars, retryVars, rlVars, mgrVars, pipeVars>>
    \/ BHReset /\ UNCHANGED <<cbVars, retryVars, rlVars, mgrVars, pipeVars>>
    \/ Tick /\ UNCHANGED <<retryVars, rlVars, bhVars, mgrVars, pipeVars>>

SpecBH == InitBH /\ [][NextBH]_vars

\* the manager and its pools
InitMgr == InitCB

NextMgr ==
    \/ \E name \in PoolNames, options \in PoolOptions :
          MgrGetBulkhead(name, options) /\ UNCHANGED <<cbVars, retryVars, rlVars, bhVars, pipeVars>>
    \/ \E name \in PoolNames :
          MgrExecute(name) /\ UNCHANGED <<cbVars, retryVars, rlVars, bhVars, pipeVars>>
    \/ \E name \in PoolNames, ok \in BOOLEAN :
          MgrSettle(name, ok) /\ UNCHANGED <<cbVars, retryVars, rlVars, bhVars, pipeVars>>
    \/ \E name \in PoolNames, n \in 1..MaxPoolCalls :
          MgrTimeout(name, n) /\ UNCHANGED <<cbVars, retryVars, rlVars, bhVars, pipeVars>>

SpecMgr == InitMgr /\ [][NextMgr]_vars

\* the order service: requests, answers of the product service, timers
InitPipe ==
    /\ CBInit
    /\ ropts = PipeRetryOptions
    /\ rp = RetryPattern(ropts)
    /\ rx = IdleFrame
    /\ rlog = RetryLogInit
    /\ RLInit
    /\ BHInit
    /\ MgrInit
    /\ PipeInit

NextPipe ==
    \/ PipeRequest /\ PipeFrame
    \/ \E i \in PipeRequests, ok \in BOOLEAN : PipeResponse(i, ok) /\ PipeFrame
    \/ \E i \in PipeRequests : PipeWake(i) /\ PipeFrame
    \/ \E tm \in btimers : PipeTimeout(tm) /\ PipeFrame
    \/ PipeReset /\ PipeFrame
    \/ PipeTick /\ PipeFrame

SpecPipe == InitPipe /\ [][NextPipe]_vars

====
